---- MODULE Spec2Model ----
(***************************************************************************)
(* Model of gando's BaseAPI view (gando/architectures/apis/__base.py):     *)
(* the per-request response state, the exception classifier                *)
(* (handle_exception) and the envelope builder (response_context).         *)
(***************************************************************************)
EXTENDS Integers, Sequences, FiniteSets, TLC

VARIABLES
    self,       \* the BaseAPI instance: its private per-request fields
    settings,   \* gando.config.SETTINGS as seen by this request
    request,    \* the request: headers and the view's authenticate header
    pc,         \* position of the request in the dispatch cycle
    nops,       \* calls the view logic has made so far
    lastcall,   \* the last public call made on the view and its argument
    ret,        \* value returned by the last get_status_code call
    raised,     \* exception propagated to the host framework, or PyNone
    response,   \* the response object handed to / returned by finalize_response
    built,      \* the dict response_context holds before _response_validator
    envelope    \* the body response_context returns

vars == <<self, settings, request, pc, nops, lastcall, ret, raised, response, built, envelope>>

----------------------------------------------------------------------------
(* Bounds of the model *)

MaxOps == 2         \* calls the view logic makes before it returns or raises
MaxMsgs == 1        \* entries per message list when the builder is called
MaxMessenger == 1   \* messenger entries when the builder is called
MaxDepth == 2       \* nesting of the containers handed to the sanitizer
MaxCount == 5       \* items counted by a paginated payload
MaxPageSize == 3    \* items per page
MaxPage == 3        \* page number asked for

----------------------------------------------------------------------------
(* Python values, tagged by type *)

PyNone == [t |-> "none"]
PyBool(b) == [t |-> "bool", b |-> b]
PyInt(i) == [t |-> "int", i |-> i]
PyStr(s) == [t |-> "str", s |-> s, cls |-> "str", code |-> ""]
PyStrMsg(cls, code, s) == [t |-> "str", s |-> s, cls |-> cls, code |-> code]
PyList(l) == [t |-> "list", l |-> l]
PyTuple(l) == [t |-> "tuple", l |-> l]
PyDict(d) == [t |-> "dict", d |-> d]
PyObj(a) == [t |-> "obj", a |-> a]

EmptyDict == PyDict(<<>>)

\* Python truthiness (bool(x))
Truthy(x) ==
    CASE x.t = "none" -> FALSE
      [] x.t = "bool" -> x.b
      [] x.t = "int"  -> x.i # 0
      [] x.t = "str"  -> x.s # ""
      [] x.t = "list" -> Len(x.l) > 0
      [] x.t = "dict" -> DOMAIN x.d # {}
      [] OTHER        -> TRUE

\* x or y
PyOr(x, y) == IF Truthy(x) THEN x ELSE y

----------------------------------------------------------------------------
(* One probing step of the extraction helpers: <<TRUE, v>> when the        *)
(* expression evaluates to v, <<FALSE, PyNone>> when it raises (and        *)
(* contextlib.suppress swallows it).                                       *)

Ok(v) == <<TRUE, v>>
Raises == <<FALSE, PyNone>>

\* x.name
GetAttr(x, name) ==
    IF x.t = "obj" /\ name \in DOMAIN x.a THEN Ok(x.a[name]) ELSE Raises

\* x.get(name): only dicts have .get; a missing key gives None, no error
DictGet(x, name) ==
    IF x.t = "dict"
    THEN Ok(IF name \in DOMAIN x.d THEN x.d[name] ELSE PyNone)
    ELSE Raises

\* r[0] for the result r of an earlier step
Index0(r) ==
    IF r[1] /\ r[2].t = "list" /\ Len(r[2].l) > 0 THEN Ok(r[2].l[1]) ELSE Raises

\* the first step of a chain that does not raise
RECURSIVE FirstOk(_, _)
FirstOk(steps, last) ==
    IF steps = <<>> THEN last
    ELSE IF Head(steps)[1] THEN Head(steps)[2]
    ELSE FirstOk(Tail(steps), last)

Placeholder == PyStr("Unknown problem. Please report to support.")

messenger_code_parser(x) ==
    IF x.t = "int" \/ x.t = "str" THEN x
    ELSE FirstOk(<<GetAttr(x, "code"), DictGet(x, "code")>>, PyStr("-1"))

messenger_message_parser(x) ==
    IF x.t = "str" THEN x
    ELSE FirstOk(<<GetAttr(x, "detail"),
                   Index0(GetAttr(x, "details")),
                   GetAttr(x, "details"),
                   Index0(GetAttr(x, "messages")),
                   GetAttr(x, "messages"),
                   GetAttr(x, "message"),
                   DictGet(x, "detail"),
                   Index0(DictGet(x, "details")),
                   DictGet(x, "details"),
                   Index0(DictGet(x, "messages")),
                   DictGet(x, "messages"),
                   DictGet(x, "message")>>, Placeholder)

----------------------------------------------------------------------------
(* The view instance after __init__ *)

NewSelf ==
    [messenger         |-> <<>>,
     data              |-> PyNone,
     logs_message      |-> <<>>,
     infos_message     |-> <<>>,
     warnings_message  |-> <<>>,
     errors_message    |-> <<>>,
     exceptions_message |-> <<>>,
     monitor           |-> <<>>,
     status_code       |-> PyNone,
     headers           |-> <<>>,
     exception_status  |-> FALSE,
     exc               |-> PyNone,
     pagination        |-> TRUE]

(* Accumulator operations: each maps the instance to the instance after    *)
(* the call.                                                               *)

add_to_messenger(s, message, code, type_) ==
    [s EXCEPT !.messenger = Append(@,
        PyDict([type    |-> PyStr(type_),
                code    |-> messenger_code_parser(code),
                message |-> messenger_message_parser(message)]))]

add_fail_message_to_messenger(s, message, code) == add_to_messenger(s, message, code, "FAIL")
add_error_message_to_messenger(s, message, code) == add_to_messenger(s, message, code, "ERROR")
add_warning_message_to_messenger(s, message, code) == add_to_messenger(s, message, code, "WARNING")
add_success_message_to_messenger(s, message, code) == add_to_messenger(s, message, code, "SUCCESS")

\* set_error_message putting the new message first
set_error_message_first(s, key, value) ==
    [s EXCEPT !.errors_message = <<PyDict(key :> value)>> \o @]

set_log_message(s, key, value) ==
    [s EXCEPT !.logs_message = Append(@, PyDict(key :> value))]
set_info_message(s, key, value) ==
    [s EXCEPT !.infos_message = Append(@, PyDict(key :> value))]
set_warning_message(s, key, value) ==
    [s EXCEPT !.warnings_message = Append(@, PyDict(key :> value))]
set_error_message(s, key, value) ==
    [s EXCEPT !.errors_message = Append(@, PyDict(key :> value))]
set_exception_message(s, key, value) ==
    [s EXCEPT !.exceptions_message = Append(@, PyDict(key :> value))]

set_headers(s, key, value) ==
    [s EXCEPT !.headers = (key :> value) @@ @]

\* get_headers(value): copies a truthy dict into the stored headers
get_headers(s, value) ==
    IF Truthy(value)
    THEN [s EXCEPT !.headers = value.d @@ @]
    ELSE s

set_status_code(s, value) == [s EXCEPT !.status_code = value]

\* get_status_code(value) storing every truthy value, 200 included
get_status_code_self_any(s, value) ==
    IF Truthy(value) THEN set_status_code(s, value) ELSE s

\* the instance after get_status_code(value)
get_status_code_self(s, value) ==
    IF Truthy(value) /\ 100 <= value.i /\ value.i < 600 /\ value.i # 200
    THEN set_status_code(s, value)
    ELSE s

\* get_status_code(value) returning the stored status code before the
\* argument
get_status_code_stored_first(s, value) ==
    IF Truthy(s.status_code) THEN s.status_code.i
    ELSE IF Truthy(value) THEN value.i ELSE 200

\* the integer get_status_code(value) returns: self.__status_code or 200
get_status_code(s, value) ==
    LET Or200(stored) == IF Truthy(stored) THEN stored.i ELSE 200
    IN  Or200(get_status_code_self(s, value).status_code)

set_exception_status(s, value) == [s EXCEPT !.exception_status = value]

\* the instance after get_exception_status(value); value is PyNone or a bool
get_exception_status_self(s, value) ==
    IF value.t # "none" THEN set_exception_status(s, value.b) ELSE s

----------------------------------------------------------------------------
(* Exceptions.  An exception object is a record of its class and of the    *)
(* attributes the handlers read.                                           *)

DeveloperClasses == {"DeveloperErrorResponseAPIMessage",
                     "DeveloperExceptionResponseAPIMessage",
                     "DeveloperWarningResponseAPIMessage"}
EnduserClasses == {"EnduserErrorResponseAPIMessage",
                   "EnduserFailResponseAPIMessage",
                   "EnduserWarningResponseAPIMessage"}
DomainClasses == DeveloperClasses \cup EnduserClasses
AuthClasses == {"NotAuthenticated", "AuthenticationFailed"}

\* the classes of gando.http.api_exceptions (not part of the sources at
\* hand) derive from rest_framework's APIException, so that the framework
\* handler answers them; they carry status_code, code and message, and a
\* detail that yields no message of its own
DomainIsAPIException == TRUE

IsAPIException(exc) ==
    \/ exc.cls \in AuthClasses \cup {"APIException", "NotFound", "PermissionDenied"}
    \/ exc.cls \in DomainClasses /\ DomainIsAPIException

MkExc(cls, status_code, code, message, detail) ==
    [cls |-> cls, status_code |-> status_code, code |-> code, message |-> message,
     detail |-> detail, auth_header |-> PyNone, wait |-> PyNone, args |-> PyList(<<>>)]

\* rest_framework.response.Response(data, status, headers, exception)
\* (drf: the object is an instance of rest_framework's Response)
Response(data, status, headers, exception) ==
    [data |-> data, status_code |-> status, headers |-> headers, exception |-> exception,
     drf |-> TRUE]

\* django.http.HttpResponse(content, status): a response that is not a
\* rest_framework Response
HttpResponse(content, status) ==
    [data |-> content, status_code |-> status, headers |-> <<>>, exception |-> FALSE,
     drf |-> FALSE]

NoResponse == [data |-> PyNone, status_code |-> -1, headers |-> <<>>, exception |-> FALSE,
               drf |-> FALSE]

\* _exception_handler_messages(msg, base_key): one error message per leaf
\* of exc.detail; has_base tells whether base_key was passed
RECURSIVE exception_handler_messages(_, _, _, _)
exception_handler_messages(s, msg, has_base, base_key) ==
    IF msg.t = "list" THEN
        IF msg.l = <<>> THEN s
        ELSE exception_handler_messages(
                 exception_handler_messages(s, Head(msg.l), FALSE, ""),
                 PyList(Tail(msg.l)), has_base, base_key)
    ELSE IF msg.t = "dict" THEN
        IF DOMAIN msg.d = {} THEN s
        ELSE LET k == CHOOSE k \in DOMAIN msg.d : TRUE
             IN  exception_handler_messages(
                     exception_handler_messages(s, msg.d[k], TRUE, k),
                     PyDict([j \in DOMAIN msg.d \ {k} |-> msg.d[j]]), has_base, base_key)
    ELSE
        LET key0 == IF msg.t = "str" /\ msg.cls # "str" THEN msg.code ELSE "e"
            key  == IF has_base /\ base_key # "" THEN base_key \o "__" \o key0 ELSE key0
            text == IF msg.t = "str" THEN PyStr(msg.s) ELSE PyStr("str(msg)")
        IN  set_error_message(s, key, text)

\* exception_handler without its APIException branch
\* exception_handler answering None for every exception
exception_handler_none(s, exc) == [self |-> s, response |-> NoResponse, some |-> FALSE]

\* exception_handler(exc, context): the response for exc, or None
exception_handler(s, exc) ==
    LET Converted(e) ==
            IF e.cls = "Http404" THEN [e EXCEPT !.cls = "NotFound", !.status_code = 404]
            ELSE IF e.cls = "DjangoPermissionDenied"
                 THEN [e EXCEPT !.cls = "PermissionDenied", !.status_code = 403]
            ELSE e
        Headers(e) ==
            (IF Truthy(e.wait) THEN ("Retry-After" :> e.wait) ELSE <<>>)
            @@ (IF Truthy(e.auth_header) THEN ("WWW-Authenticate" :> e.auth_header) ELSE <<>>)
        Answer(e) ==
            IF IsAPIException(e)
            THEN [self     |-> exception_handler_messages(s, e.detail, FALSE, ""),
                  response |-> Response(PyNone, e.status_code, Headers(e), FALSE),
                  some     |-> TRUE]
            ELSE [self |-> s, response |-> NoResponse, some |-> FALSE]
    IN  Answer(Converted(exc))

\* the coercion left out
auth_coerce_keep(exc, auth_header) == exc

\* the coercion both handlers start with: (Not)Authenticated without a
\* challenge header becomes a 403
auth_coerce(exc, auth_header) ==
    IF exc.cls \in AuthClasses
    THEN IF Truthy(auth_header)
         THEN [exc EXCEPT !.auth_header = auth_header]
         ELSE [exc EXCEPT !.status_code = 403]
    ELSE exc

UnexpectedErrorText == PyStr("An unexpected error has occurred based on your request type. ...")
UnexpectedWarningText == PyStr("Please discuss this matter with software support.")
SupportInfoText == PyStr("Please share this problem with our technical experts ...")

\* _handle_exception_gando_handling_true(exc)
handle_exception_gando_handling_true(s, exc, auth_header, cfg) ==
    LET Info(s3) ==
            IF cfg.COMMUNICATION_WITH_SOFTWARE_SUPPORT
            THEN set_info_message(s3, "unexpectedError", SupportInfoText)
            ELSE s3
        Messages(s0, args) ==
            set_status_code(
                Info(set_warning_message(
                         set_error_message(
                             set_exception_message(s0, "unexpectedError", args),
                             "unexpectedError", UnexpectedErrorText),
                         "unexpectedError", UnexpectedWarningText)),
                PyInt(421))
        Finish(h, exc1) ==
            [self     |-> Messages(h.self, exc1.args),
             response |-> [(IF h.some THEN h.response
                            ELSE Response(PyNone, 200, <<>>, FALSE)) EXCEPT !.exception = TRUE],
             raised   |-> PyNone]
        Coerced(exc1) == Finish(exception_handler([s EXCEPT !.exc = exc1], exc1), exc1)
    IN  Coerced(auth_coerce(exc, auth_header))

\* the strict handler answering a 500 response where it should re-raise
handle_exception_gando_handling_false_swallow(s, exc, auth_header, cfg) ==
    [self |-> [s EXCEPT !.exc = exc], response |-> Response(PyNone, 500, <<>>, TRUE),
     raised |-> PyNone]

\* _handle_exception_gando_handling_false(exc)
handle_exception_gando_handling_false(s, exc, auth_header, cfg) ==
    LET Finish(h, exc1) ==
            IF h.some
            THEN [self |-> h.self, response |-> [h.response EXCEPT !.exception = TRUE],
                  raised |-> PyNone]
            ELSE \* raise_uncaught_exception(exc)
                 [self |-> h.self, response |-> NoResponse, raised |-> exc1]
        Coerced(exc1) == Finish(exception_handler([s EXCEPT !.exc = exc1], exc1), exc1)
    IN  Coerced(auth_coerce(exc, auth_header))

\* handle_exception(exc)
handle_exception(s, exc, auth_header, cfg) ==
    LET Status(s0) == set_status_code(s0, PyInt(exc.status_code))
        Developer(s0) ==
            CASE exc.cls = "DeveloperErrorResponseAPIMessage" ->
                     set_error_message(Status(s0), exc.code, exc.message)
              [] exc.cls = "DeveloperExceptionResponseAPIMessage" ->
                     set_exception_message(Status(s0), exc.code, exc.message)
              [] exc.cls = "DeveloperWarningResponseAPIMessage" ->
                     set_warning_message(Status(s0), exc.code, exc.message)
              [] OTHER -> s0
        Enduser(s1) ==
            CASE exc.cls = "EnduserErrorResponseAPIMessage" ->
                     add_error_message_to_messenger(Status(s1), exc.message, PyStr(exc.code))
              [] exc.cls = "EnduserFailResponseAPIMessage" ->
                     add_fail_message_to_messenger(Status(s1), exc.message, PyStr(exc.code))
              [] exc.cls = "EnduserWarningResponseAPIMessage" ->
                     add_warning_message_to_messenger(Status(s1), exc.message, PyStr(exc.code))
              [] OTHER -> s1
        Generic(s2) ==
            IF cfg.HANDLING
            THEN handle_exception_gando_handling_true(s2, exc, auth_header, cfg)
            ELSE handle_exception_gando_handling_false(s2, exc, auth_header, cfg)
    IN  Generic(Enduser(Developer([s EXCEPT !.exc = exc])))

----------------------------------------------------------------------------
(* Default messages (gando.utils.messages).  The module is not part of the *)
(* sources at hand: each entry keeps the class name as its code and        *)
(* message, and takes its type from the class name.                        *)

DefaultResponseMessage(band) ==
    [type    |-> IF band \in {"200", "201"} THEN "SUCCESS" ELSE "FAIL",
     code    |-> PyStr("DefaultResponse" \o band \o ".code"),
     message |-> PyStr("DefaultResponse" \o band \o ".message")]

\* the band taken from the hundreds digit alone
StatusBandByHundred(status_code) ==
    IF status_code < 100 THEN ""
    ELSE IF 500 <= status_code THEN "500"
    ELSE ToString((status_code \div 100) * 100)

\* the band of the table a status code falls in, "" when it is in none
StatusBand(status_code) ==
    IF 100 <= status_code /\ status_code < 200 THEN "100"
    ELSE IF 200 <= status_code /\ status_code < 300 THEN
        IF status_code = 201 THEN "201" ELSE "200"
    ELSE IF 300 <= status_code /\ status_code < 400 THEN "300"
    ELSE IF 400 <= status_code /\ status_code < 500 THEN
        IF status_code = 400 THEN "400"
        ELSE IF status_code = 401 THEN "401"
        ELSE IF status_code = 403 THEN "403"
        ELSE IF status_code = 404 THEN "404"
        ELSE IF status_code = 421 THEN "421"
        ELSE "400"
    ELSE IF 500 <= status_code THEN "500"
    ELSE ""

\* __default_message()
default_message(s) ==
    LET Text(status_code) ==
        IF 100 <= status_code /\ status_code < 200 THEN PyStr("please wait...")
        ELSE IF 200 <= status_code /\ status_code < 300 THEN
            IF status_code = 201 THEN PyStr("The desired object was created correctly.")
            ELSE PyStr("Your request has been successfully registered.")
        ELSE IF 300 <= status_code /\ status_code < 400
            THEN PyStr("The requirements for your request are not available.")
        ELSE IF 400 <= status_code /\ status_code < 500 THEN
            IF status_code = 400 THEN PyStr("Bad Request...")
            ELSE IF status_code = 401 THEN PyStr("Your authentication information is not available.")
            ELSE IF status_code = 403 THEN PyStr("You do not have access to this section.")
            ELSE IF status_code = 404 THEN PyStr("There is no information about your request.")
            ELSE IF status_code = 421 THEN UnexpectedErrorText
            ELSE PyStr("There was an error in how to send the request.")
        ELSE IF 500 <= status_code THEN PyStr("The server is unable to respond to your request.")
        ELSE PyStr("Undefined.")
    IN  Text(get_status_code(s, PyNone))

\* APIException.get_codes(): the codes of exc.detail, in its shape
RECURSIVE get_codes(_)
get_codes(detail) ==
    IF detail.t = "list" THEN PyList([i \in 1..Len(detail.l) |-> get_codes(detail.l[i])])
    ELSE IF detail.t = "dict" THEN PyDict([k \in DOMAIN detail.d |-> get_codes(detail.d[k])])
    ELSE IF detail.t = "str" THEN PyStr(detail.code)
    ELSE PyNone

\* __default_messenger_message_adder()
default_messenger_message_adder(s) ==
    LET HasDetail == s.exc # PyNone /\ IsAPIException(s.exc)
        Add(dflt) ==
            add_to_messenger(s,
                PyOr(IF HasDetail THEN s.exc.detail ELSE PyNone, dflt.message),
                PyOr(IF HasDetail THEN get_codes(s.exc.detail) ELSE PyNone, dflt.code),
                dflt.type)
        InBand(band) == IF band = "" THEN s ELSE Add(DefaultResponseMessage(band))
    IN  InBand(StatusBand(get_status_code(s, PyNone)))

\* no default message injected
set_default_message_none(s) == s

\* the default message with the 5xx band ending at 599
set_default_message_closed_5xx(s) ==
    LET Set(s1, status_code, msg) ==
            IF 100 <= status_code /\ status_code < 200 THEN set_warning_message(s1, "status_code_1xx", msg)
            ELSE IF 200 <= status_code /\ status_code < 300 THEN set_info_message(s1, "status_code_2xx", msg)
            ELSE IF 300 <= status_code /\ status_code < 400 THEN set_error_message(s1, "status_code_3xx", msg)
            ELSE IF 400 <= status_code /\ status_code < 500 THEN set_error_message(s1, "status_code_4xx", msg)
            ELSE IF 500 <= status_code /\ status_code < 600 THEN set_error_message(s1, "status_code_5xx", msg)
            ELSE set_error_message(s1, "status_code_xxx", msg)
        Added(s1) == Set(s1, get_status_code(s1, PyNone), default_message(s1))
    IN  Added(default_messenger_message_adder(s))

\* __set_default_message()
set_default_message(s) ==
    LET Set(s1, status_code, msg) ==
            IF 100 <= status_code /\ status_code < 200 THEN set_warning_message(s1, "status_code_1xx", msg)
            ELSE IF 200 <= status_code /\ status_code < 300 THEN set_info_message(s1, "status_code_2xx", msg)
            ELSE IF 300 <= status_code /\ status_code < 400 THEN set_error_message(s1, "status_code_3xx", msg)
            ELSE IF 400 <= status_code /\ status_code < 500 THEN set_error_message(s1, "status_code_4xx", msg)
            ELSE IF 500 <= status_code THEN set_error_message(s1, "status_code_5xx", msg)
            ELSE set_error_message(s1, "status_code_xxx", msg)
        Added(s1) == Set(s1, get_status_code(s1, PyNone), default_message(s1))
    IN  Added(default_messenger_message_adder(s))

\* __set_dynamic_message(value), value a string: the instance and the
\* value returned
set_dynamic_message(s, value) ==
    CASE value.cls = "InfoStringMessage" ->
             [self |-> set_info_message(s, value.code, value), data |-> PyNone]
      [] value.cls \in {"ErrorStringMessage", "ErrorDetail"} ->
             [self |-> set_error_message(s, value.code, value), data |-> PyNone]
      [] value.cls = "WarningStringMessage" ->
             [self |-> set_warning_message(s, value.code, value), data |-> PyNone]
      [] value.cls = "LogStringMessage" ->
             [self |-> set_log_message(s, value.code, value), data |-> PyNone]
      [] value.cls = "ExceptionStringMessage" ->
             [self |-> set_exception_message(s, value.code, value), data |-> PyNone]
      [] OTHER -> [self |-> s, data |-> value]

\* the keys of a dict in iteration order (the modelled dicts iterate in
\* the order of this enumeration)
RECURSIVE KeySeq(_)
KeySeq(K) ==
    IF K = {} THEN <<>>
    ELSE LET k == CHOOSE k \in K : TRUE IN <<k>> \o KeySeq(K \ {k})

\* __set_messages_from_data(data): the instance and the normalized data
RECURSIVE set_messages_from_data(_, _)
RECURSIVE set_messages_from_list(_, _, _)
RECURSIVE set_messages_from_dict(_, _, _)

set_messages_from_list(s, items, tmp) ==
    IF items = <<>> THEN [self |-> s, data |-> PyList(tmp)]
    ELSE LET Rest(r) == set_messages_from_list(r.self, Tail(items), Append(tmp, r.data))
         IN  Rest(set_messages_from_data(s, Head(items)))

set_messages_from_dict(s, d, keys) ==
    IF keys = <<>> THEN [self |-> s, data |-> PyDict(d)]      \* tmp[k] = v
    ELSE set_messages_from_dict(set_messages_from_data(s, d[Head(keys)]).self, d, Tail(keys))

set_messages_from_data(s, data) ==
    IF data.t = "str" THEN set_dynamic_message(s, data)
    ELSE IF data.t = "list" THEN set_messages_from_list(s, data.l, <<>>)
    ELSE IF data.t = "dict" THEN set_messages_from_dict(s, data.d, KeySeq(DOMAIN data.d))
    ELSE [self |-> s, data |-> data]

\* validate_data() with the string branch missing: a string is wrapped
\* like a dict
validate_data_string_as_dict(s) ==
    LET Classify(data) ==
        IF data.t = "none"
        THEN [self |-> set_default_message(s), data |-> PyDict([result |-> EmptyDict])]
        ELSE IF data.t = "list"
        THEN [self |-> s,
              data |-> PyDict([count |-> PyInt(Len(data.l)), next |-> PyNone,
                               previous |-> PyNone, results |-> data])]
        ELSE [self |-> s, data |-> PyDict([result |-> data])]
    IN  Classify(s.data)

\* validate_data(): the instance and the data part of the v1 envelope
validate_data(s) ==
    LET Classify(data) ==
        IF data.t = "none"
        THEN [self |-> set_default_message(s), data |-> PyDict([result |-> EmptyDict])]
        ELSE IF data.t = "str"
        THEN LET Wrap(r) ==
                     [self |-> r.self,
                      data |-> PyDict([result |-> IF Truthy(r.data)
                                                  THEN PyDict([string |-> r.data])
                                                  ELSE EmptyDict])]
             IN  Wrap(set_dynamic_message(s, data))
        ELSE IF data.t = "list"
        THEN [self |-> s,
              data |-> PyDict([count |-> PyInt(Len(data.l)), next |-> PyNone,
                               previous |-> PyNone, results |-> data])]
        ELSE IF data.t = "dict"
        THEN [self |-> s, data |-> PyDict([result |-> data])]
        ELSE [self |-> s, data |-> PyDict([result |-> EmptyDict])]
    IN  Classify(s.data)

\* round(count / page_size): Python rounds halves to the even neighbour
PyRoundDiv(count, page_size) ==
    LET Round(q, r) ==
            IF 2 * r < page_size THEN q
            ELSE IF 2 * r > page_size THEN q + 1
            ELSE IF q % 2 = 0 THEN q ELSE q + 1
    IN  Round(count \div page_size, count % page_size)

PageUrl(n) == PyStr("<request_path>?page=" \o ToString(n))

\* __get_pagination_url(page_size, page_number, count), page_size > 0:
\* <<next_page, previous_page>>
get_pagination_url(page_size, page_number, count) ==
    LET Url(has_page, n) == IF has_page /\ n # 0 THEN PageUrl(n) ELSE PyNone
        Pages(first_page, last_page) ==
            <<Url(~(page_number >= last_page), page_number + 1),
              Url(~(page_number <= first_page /\ first_page # 0), page_number - 1)>>
    IN  Pages(IF count # 0 THEN 1 ELSE 0,
              IF count % page_size = 0 THEN count \div page_size
              ELSE PyRoundDiv(count, page_size) + 1)

\* the v2 data part shaped like the v1 data part
validate_data_v_1_shape(s) == validate_data(s)

\* validate_data_v_2_0_0_response(): the instance and the data part of the
\* v2 envelope
validate_data_v_2_0_0_response(s) ==
    LET Classify(data) ==
        IF data.t = "none"
        THEN [self |-> set_default_message(s), data |-> PyDict([result |-> EmptyDict])]
        ELSE IF data.t = "str"
        THEN LET Wrap(r) ==
                     [self |-> r.self,
                      data |-> PyDict([result |-> IF Truthy(r.data)
                                                  THEN PyDict([string |-> r.data])
                                                  ELSE EmptyDict])]
             IN  Wrap(set_dynamic_message(s, data))
        ELSE IF data.t = "list"
        THEN [self |-> s,
              data |-> IF s.pagination
                       THEN PyDict([count |-> PyInt(Len(data.l)), next |-> PyNone,
                                    previous |-> PyNone, result |-> data])
                       ELSE PyDict([result |-> data])]
        ELSE IF data.t = "dict"
        THEN IF {"count", "next", "previous", "results"} \subseteq DOMAIN data.d
             THEN [self |-> s,
                   data |-> IF s.pagination
                            THEN PyDict([count |-> data.d["count"], next |-> data.d["next"],
                                         previous |-> data.d["previous"],
                                         result |-> data.d["results"]])
                            ELSE PyDict([result |-> data.d["results"]])]
             ELSE IF {"count", "page_size", "page_number", "result"} \subseteq DOMAIN data.d
             THEN LET Paged(np) ==
                          [self |-> s,
                           data |-> IF s.pagination
                                    THEN PyDict([count |-> data.d["count"], next |-> np[1],
                                                 previous |-> np[2], result |-> data.d["result"]])
                                    ELSE PyDict([result |-> data.d["result"]])]
                  IN  Paged(get_pagination_url(data.d["page_size"].i,
                                               data.d["page_number"].i,
                                               data.d["count"].i))
             ELSE [self |-> s, data |-> PyDict([result |-> data])]
        ELSE [self |-> s, data |-> PyDict([result |-> EmptyDict])]
    IN  Classify(s.data)

\* __many()
many(s) ==
    \/ s.data.t = "list"
    \/ s.data.t = "dict" /\ {"count", "next", "previous", "results"} \subseteq DOMAIN s.data.d

\* __many_v_2_0_0_response()
many_v_2_0_0_response(s) ==
    \/ s.data.t = "list"
    \/ s.data.t = "dict" /\ {"count", "next", "previous", "result"} \subseteq DOMAIN s.data.d

EntryType(msg) == IF "type" \in DOMAIN msg.d THEN msg.d["type"].s ELSE ""

\* __fail_message_messenger()
fail_message_messenger(s) ==
    \E i \in 1..Len(s.messenger) : EntryType(s.messenger[i]) \in {"FAIL", "ERROR"}

\* __warning_message_messenger()
warning_message_messenger(s) ==
    \E i \in 1..Len(s.messenger) : EntryType(s.messenger[i]) = "WARNING"

\* __success() deciding by the code range alone
success_by_code_range(s) ==
    LET In2xxRange(status_code) == 200 <= status_code /\ status_code < 300
    IN  In2xxRange(get_status_code(s, PyNone))

\* __success() looking at the messenger before the code range
success_fail_first(s) ==
    LET In2xxRange(status_code) == 200 <= status_code /\ status_code < 300
    IN  /\ ~fail_message_messenger(s)
        /\ \/ In2xxRange(get_status_code(s, PyNone))
           \/ /\ Len(s.errors_message) = 0
              /\ Len(s.exceptions_message) = 0
              /\ ~s.exception_status

\* __success()
success(s) ==
    LET In2xxRange(status_code) == 200 <= status_code /\ status_code < 300
    IN  \/ In2xxRange(get_status_code(s, PyNone))
        \/ /\ Len(s.errors_message) = 0
           /\ Len(s.exceptions_message) = 0
           /\ ~s.exception_status
           /\ ~fail_message_messenger(s)

\* __has_warning()
has_warning(s) == Len(s.warnings_message) # 0 /\ warning_message_messenger(s)

\* __messages()
messages(s, cfg) ==
    PyDict((IF cfg.DEBUG
            THEN [log |-> PyList(s.logs_message), exception |-> PyList(s.exceptions_message)]
            ELSE <<>>)
           @@ [info    |-> PyList(s.infos_message),
               warning |-> PyList(s.warnings_message),
               error   |-> PyList(s.errors_message)])

\* what the except clause of both loaders raises when it reads
\* exc.args[0] of a PassException raised without arguments
IndexError == [cls |-> "IndexError", status_code |-> 0, code |-> "", message |-> PyNone,
               detail |-> PyNone, auth_header |-> PyNone, wait |-> PyNone,
               args |-> PyList(<<PyStr("tuple index out of range")>>)]

\* the log message of a swallowed PassException
PassLog(h) == PyStr("message:" \o h.args[1])

\* __monitor_func_loader(f) for every hook of SETTINGS.MONITOR in turn: a
\* hook either returns its value or raises PassException(*args), which is
\* logged; the loop ends with the exception the loader lets out, if any
RECURSIVE monitor_play_loop(_, _, _)
monitor_play_loop(s, monitor, hooks) ==
    IF hooks = <<>> THEN [self |-> s, monitor |-> monitor, raised |-> PyNone]
    ELSE LET Load(h) ==
                 IF h.pass /\ h.args = <<>>
                 THEN [self |-> s, monitor |-> monitor, raised |-> IndexError]
                 ELSE monitor_play_loop(
                          IF h.pass THEN set_log_message(s, "pass", PassLog(h)) ELSE s,
                          (h.key :> (IF h.pass THEN PyNone ELSE h.value)) @@ monitor,
                          Tail(hooks))
         IN  Load(Head(hooks))

\* monitor_play(monitor): a non-empty self.__monitor is updated in place
monitor_play(s, cfg) ==
    LET Played(r) ==
            IF DOMAIN s.monitor # {}
            THEN [self |-> [r.self EXCEPT !.monitor = r.monitor], monitor |-> r.monitor,
                  raised |-> r.raised]
            ELSE r
    IN  Played(monitor_play_loop(s, s.monitor, cfg.MONITOR))

\* __paste_to_request_func_loader(f, request) for every hook of
\* SETTINGS.PASTE_TO_REQUEST in turn: a truthy result becomes an attribute
\* of the request
RECURSIVE paste_to_request_func_loader_play(_, _, _)
paste_to_request_func_loader_play(s, attrs, hooks) ==
    IF hooks = <<>> THEN [self |-> s, attrs |-> attrs, raised |-> PyNone]
    ELSE LET Load(h) ==
                 IF h.pass /\ h.args = <<>>
                 THEN [self |-> s, attrs |-> attrs, raised |-> IndexError]
                 ELSE paste_to_request_func_loader_play(
                          IF h.pass THEN set_log_message(s, "pass", PassLog(h)) ELSE s,
                          IF ~h.pass /\ Truthy(h.value) THEN (h.key :> h.value) @@ attrs
                          ELSE attrs,
                          Tail(hooks))
         IN  Load(Head(hooks))

\* the display decision taken from the request header alone
development_messages_display_header_only(req, cfg) ==
    (IF "Development-Messages-Display" \in DOMAIN req.headers
     THEN req.headers["Development-Messages-Display"] ELSE "True") = "True"

\* __development_messages_display()
development_messages_display(req, cfg) ==
    IF cfg.DEVELOPMENT_STATE
    THEN (IF "Development-Messages-Display" \in DOMAIN req.headers
          THEN req.headers["Development-Messages-Display"] ELSE "True") = "True"
    ELSE FALSE

\* __exception_status_display()
exception_status_display(req, cfg) ==
    IF cfg.DEVELOPMENT_STATE
    THEN (IF "Exception-Status-Display" \in DOMAIN req.headers
          THEN req.headers["Exception-Status-Display"] ELSE "True") = "True"
    ELSE FALSE

\* the optional fields both schema versions add to the envelope
DisplayFields(s, req, cfg) ==
    (IF development_messages_display(req, cfg)
     THEN [development_messages |-> messages(s, cfg)] ELSE <<>>)
    @@ (IF exception_status_display(req, cfg)
        THEN [exception_status |-> PyBool(s.exception_status)] ELSE <<>>)

\* _response_context_v_1_0_0_response(data): the instance and the envelope
response_context_v_1_0_0_response(s, data, req, cfg) ==
    LET Assemble(status_code, v, s2, m, s3) ==
            [self   |-> s3,
             raised |-> m.raised,
             ret    |-> IF m.raised # PyNone THEN PyNone
                        ELSE PyDict(DisplayFields(s3, req, cfg)
                                    @@ [success     |-> PyBool(success(s2)),
                                        status_code |-> PyInt(status_code),
                                        has_warning |-> PyBool(has_warning(s2)),
                                        monitor     |-> PyDict(m.monitor),
                                        messenger   |-> PyList(s3.messenger),
                                        many        |-> PyBool(many(s2)),
                                        data        |-> v.data])]
        Monitored(status_code, v, m) == Assemble(status_code, v, v.self, m, m.self)
        Validated(status_code, v) == Monitored(status_code, v, monitor_play(v.self, cfg))
        Stored(s1) == Validated(get_status_code(s1, PyNone), validate_data(s1))
        Normalized(n) == Stored([n.self EXCEPT !.data = n.data])
    IN  Normalized(set_messages_from_data(s, data))

\* _response_context_v_2_0_0_response(data): the instance and the envelope
response_context_v_2_0_0_response(s, data, req, cfg) ==
    LET Assemble(status_code, v, s2) ==
            [self |-> s2,
             raised |-> PyNone,
             ret  |-> PyDict(DisplayFields(s2, req, cfg)
                             @@ (v.data.d
                                 @@ [success     |-> PyBool(success(s2)),
                                     status_code |-> PyInt(status_code),
                                     messenger   |-> PyList(s2.messenger)]))]
        Validated(status_code, v) == Assemble(status_code, v, v.self)
        Stored(s1) == Validated(get_status_code(s1, PyNone), validate_data_v_2_0_0_response(s1))
        Normalized(n) == Stored([n.self EXCEPT !.data = n.data])
    IN  Normalized(set_messages_from_data(s, data))

\* the sanitizer looking at the top level only
response_validator_shallow(input_data) ==
    IF input_data.t = "dict" /\ DOMAIN input_data.d = {} THEN PyNone ELSE input_data

\* _response_validator(input_data)
RECURSIVE response_validator(_)
response_validator(input_data) ==
    IF input_data.t = "list"
    THEN PyList([i \in 1..Len(input_data.l) |-> response_validator(input_data.l[i])])
    ELSE IF input_data.t = "dict"
    THEN IF DOMAIN input_data.d = {} THEN PyNone
         ELSE PyDict([k \in DOMAIN input_data.d |-> response_validator(input_data.d[k])])
    ELSE input_data

SchemaVersion(req) ==
    IF "Response-Schema-Version" \in DOMAIN req.headers /\ req.headers["Response-Schema-Version"] # ""
    THEN req.headers["Response-Schema-Version"] ELSE "1.0.0"

\* response_context(data): the instance, the sanitized envelope and the
\* exception a monitor hook let out, if any
response_context(s, data, req, cfg) ==
    LET Validated(r) == [self |-> r.self, built |-> r.ret, raised |-> r.raised,
                         ret |-> response_validator(r.ret)]
    IN  Validated(IF SchemaVersion(req) = "2.0.0"
                  THEN response_context_v_2_0_0_response(s, data, req, cfg)
                  ELSE response_context_v_1_0_0_response(s, data, req, cfg))

\* finalize_response handing every response through as it is
finalize_response_no_builder(s, rsp, req, cfg, mock) ==
    [self |-> s, status_code |-> 0, built |-> PyNone, raised |-> PyNone,
     response |-> rsp, rebuilt |-> FALSE]

\* finalize_response(request, response): the instance, the return of
\* get_status_code and the response handed to the framework. mock holds the
\* request's Mock-Server-Status header and the view's mock_server_switcher
\* and mock_server attributes; rebuilt tells whether response_context ran.
finalize_response(s, rsp, req, cfg, mock) ==
    LET Through(r) ==
            [self |-> s, status_code |-> 0, built |-> PyNone, raised |-> PyNone,
             response |-> r, rebuilt |-> FALSE]
        Rebuilt(status_code, c) ==
            [self        |-> c.self,
             status_code |-> status_code,
             built       |-> c.built,
             raised      |-> c.raised,
             response    |-> Response(c.ret, status_code, c.self.headers,
                                      c.self.exception_status),
             rebuilt     |-> TRUE]
        WithStatus(s2) ==
            Rebuilt(get_status_code(s2, PyInt(rsp.status_code)),
                    response_context(get_status_code_self(s2, PyInt(rsp.status_code)),
                                     rsp.data, req, cfg))
    IN  IF mock.switcher /\ mock.status # "" /\ mock.server # PyNone
        THEN Through(mock.server)
        ELSE IF rsp.drf
        THEN WithStatus(get_exception_status_self(get_headers(s, PyDict(rsp.headers)),
                                                  PyBool(rsp.exception)))
        ELSE Through(rsp)

----------------------------------------------------------------------------
(* Inputs *)

ErrorDetail(text, code) == PyStrMsg("ErrorDetail", code, text)

\* status codes the view logic stores with set_status_code
SetCodes == {0, 404}
\* arguments the view logic passes to get_status_code (PyNone: no argument)
GetArgs == {PyNone, PyInt(200), PyInt(300)}
\* message arguments of the add_*_message_to_messenger calls
MessageArgs == {PyStr("m"), PyDict([message |-> PyStr("m")])}
\* status codes of the responses a view returns
ResponseCodes == {200, 404, 600}
\* data of the responses a view returns
ViewData == {PyNone, PyStr("s"), PyList(<<PyInt(1)>>), PyDict([a |-> PyInt(1)])}

DomainStatus == 409

Exceptions ==
    {MkExc(cls, DomainStatus, "c", PyStr("m"), PyList(<<>>)) : cls \in DomainClasses}
    \cup {MkExc("NotAuthenticated", 401, "", PyNone,
                ErrorDetail("Authentication credentials were not provided.", "not_authenticated")),
          MkExc("AuthenticationFailed", 401, "", PyNone,
                ErrorDetail("Incorrect authentication credentials.", "authentication_failed")),
          MkExc("APIException", 400, "", PyNone, PyList(<<>>)),
          MkExc("Http404", 0, "", PyNone, ErrorDetail("Not found.", "not_found")),
          MkExc("DjangoPermissionDenied", 0, "", PyNone,
                ErrorDetail("You do not have permission to perform this action.", "permission_denied")),
          MkExc("ValueError", 0, "", PyNone, PyNone)}

\* what get_authenticate_header(request) returns
AuthHeaders == {PyNone, PyStr("Basic realm=api")}

MainSettings ==
    [HANDLING : BOOLEAN,
     COMMUNICATION_WITH_SOFTWARE_SUPPORT : {TRUE},
     DEBUG : {TRUE},
     DEVELOPMENT_STATE : {TRUE},
     MONITOR : {<<>>}]

Requests ==
    {[headers |-> <<>>], [headers |-> ("Response-Schema-Version" :> "2.0.0")]}

\* what the view's mock_server() returns
MockResponse == Response(PyDict([mock |-> PyInt(1)]), 200, <<>>, FALSE)

\* the request's Mock-Server-Status header ("": absent) with the view
\* class's mock_server_switcher and mock_server (PyNone: not defined)
MockServers ==
    {[status |-> "", switcher |-> FALSE, server |-> PyNone],
     [status |-> "on", switcher |-> FALSE, server |-> PyNone],
     [status |-> "", switcher |-> TRUE, server |-> MockResponse],
     [status |-> "on", switcher |-> TRUE, server |-> MockResponse]}

----------------------------------------------------------------------------
(* The request cycle: the view logic calls the public accumulator methods, *)
(* then returns a response or raises; a raised exception goes through      *)
(* handle_exception; finalize_response builds the envelope.                *)

Init ==
    /\ self = NewSelf
    /\ settings \in MainSettings
    /\ request \in Requests
    /\ pc = "view"
    /\ nops = 0
    /\ lastcall = [op |-> "__init__", arg |-> PyNone]
    /\ ret = 0
    /\ raised = PyNone
    /\ response = NoResponse
    /\ built = PyNone
    /\ envelope = PyNone

InView == pc = "view" /\ nops < MaxOps

Call(op, arg) ==
    /\ lastcall' = [op |-> op, arg |-> arg]
    /\ nops' = nops + 1
    /\ UNCHANGED <<settings, request, pc, raised, response, built, envelope>>

SetStatusCode ==
    /\ InView
    /\ \E v \in SetCodes :
        /\ self' = set_status_code(self, PyInt(v))
        /\ Call("set_status_code", PyInt(v))
    /\ UNCHANGED ret

GetStatusCode ==
    /\ InView
    /\ \E v \in GetArgs :
        /\ self' = get_status_code_self(self, v)
        /\ ret' = get_status_code(self, v)
        /\ Call("get_status_code", v)

SetLogMessage ==
    /\ InView
    /\ self' = set_log_message(self, "k", PyStr("v"))
    /\ Call("set_log_message", PyStr("v"))
    /\ UNCHANGED ret

SetInfoMessage ==
    /\ InView
    /\ self' = set_info_message(self, "k", PyStr("v"))
    /\ Call("set_info_message", PyStr("v"))
    /\ UNCHANGED ret

SetWarningMessage ==
    /\ InView
    /\ self' = set_warning_message(self, "k", PyStr("v"))
    /\ Call("set_warning_message", PyStr("v"))
    /\ UNCHANGED ret

SetErrorMessage ==
    /\ InView
    /\ self' = set_error_message(self, "k", PyStr("v"))
    /\ Call("set_error_message", PyStr("v"))
    /\ UNCHANGED ret

SetExceptionMessage ==
    /\ InView
    /\ self' = set_exception_message(self, "k", PyStr("v"))
    /\ Call("set_exception_message", PyStr("v"))
    /\ UNCHANGED ret

AddFailMessageToMessenger ==
    /\ InView
    /\ \E m \in MessageArgs :
        /\ self' = add_fail_message_to_messenger(self, m, PyInt(1))
        /\ Call("add_fail_message_to_messenger", m)
    /\ UNCHANGED ret

AddErrorMessageToMessenger ==
    /\ InView
    /\ \E m \in MessageArgs :
        /\ self' = add_error_message_to_messenger(self, m, PyInt(1))
        /\ Call("add_error_message_to_messenger", m)
    /\ UNCHANGED ret

AddWarningMessageToMessenger ==
    /\ InView
    /\ \E m \in MessageArgs :
        /\ self' = add_warning_message_to_messenger(self, m, PyInt(1))
        /\ Call("add_warning_message_to_messenger", m)
    /\ UNCHANGED ret

AddSuccessMessageToMessenger ==
    /\ InView
    /\ \E m \in MessageArgs :
        /\ self' = add_success_message_to_messenger(self, m, PyInt(1))
        /\ Call("add_success_message_to_messenger", m)
    /\ UNCHANGED ret

SetExceptionStatus ==
    /\ InView
    /\ self' = set_exception_status(self, TRUE)
    /\ Call("set_exception_status", PyBool(TRUE))
    /\ UNCHANGED ret

\* the view logic returns Response(data, status=..., exception=...)
ViewReturns ==
    /\ pc = "view"
    /\ \/ \E d \in ViewData, c \in ResponseCodes, e \in BOOLEAN :
            response' = Response(d, c, <<>>, e)
       \/ response' = HttpResponse(PyStr("<html>"), 200)
    /\ pc' = "returned"
    /\ UNCHANGED <<self, settings, request, nops, lastcall, ret, raised, built, envelope>>

\* handle_exception(exc), auth_header being what the view's
\* get_authenticate_header(request) returns
Handle(exc, auth_header) ==
    LET Returned(h) ==
            /\ self' = h.self
            /\ response' = h.response
            /\ raised' = h.raised
            /\ pc' = IF h.raised = PyNone THEN "handled" ELSE "raised"
    IN  /\ Returned(handle_exception(self, exc, auth_header, settings))
        /\ lastcall' = [op |-> "handle_exception", arg |-> auth_header]
        /\ UNCHANGED <<settings, request, nops, ret, built, envelope>>

\* the view logic raises exc and dispatch() calls handle_exception(exc)
HandleException ==
    /\ pc = "view"
    /\ \E exc \in Exceptions :
       \E auth_header \in (IF exc.cls \in AuthClasses THEN AuthHeaders ELSE {PyNone}) :
        Handle(exc, auth_header)

\* dispatch() calls finalize_response(request, response); the position
\* after it is "finalized" when the response was rebuilt around the
\* builder's envelope and "passed" when it went through as it was
FinalizeResponse ==
    /\ pc \in {"returned", "handled"}
    /\ \E mock \in MockServers :
       LET Finalized(f) ==
               /\ self' = f.self
               /\ ret' = IF f.rebuilt THEN f.status_code ELSE ret
               /\ built' = f.built
               /\ envelope' = f.response.data
               /\ response' = IF f.raised = PyNone THEN f.response ELSE response
               /\ raised' = f.raised
               /\ pc' = IF f.raised # PyNone THEN "raised"
                        ELSE IF f.rebuilt THEN "finalized" ELSE "passed"
       IN  Finalized(finalize_response(self, response, request, settings, mock))
    /\ lastcall' = [op |-> "finalize_response", arg |-> PyInt(response.status_code)]
    /\ UNCHANGED <<settings, request, nops>>

Next ==
    \/ SetStatusCode
    \/ GetStatusCode
    \/ SetLogMessage
    \/ SetInfoMessage
    \/ SetWarningMessage
    \/ SetErrorMessage
    \/ SetExceptionMessage
    \/ AddFailMessageToMessenger
    \/ AddErrorMessageToMessenger
    \/ AddWarningMessageToMessenger
    \/ AddSuccessMessageToMessenger
    \/ SetExceptionStatus
    \/ ViewReturns
    \/ HandleException
    \/ FinalizeResponse

Spec == Init /\ [][Next]_vars

TypeOK == pc \in {"init", "view", "returned", "handled", "raised", "finalized", "passed", "built",
                  "called"}

----------------------------------------------------------------------------
(* Properties of the request cycle *)

AccumulatorFields ==
    {"messenger", "logs_message", "infos_message", "warnings_message",
     "errors_message", "exceptions_message"}

\* how many entries the step appends to the accumulator f
Appended(f) == Len(self'[f]) - Len(self[f])

\* the step is a call of get_status_code with no argument, None or 200,
\* made by the view logic or by finalize_response
C3_DefaultCall ==
    \/ /\ nops' = nops + 1
       /\ lastcall'.op = "get_status_code"
       /\ lastcall'.arg \in {PyNone, PyInt(200)}
    \/ /\ pc # "finalized"
       /\ pc' = "finalized"
       /\ lastcall'.arg = PyInt(200)

\* C3 (as claimed): a default call leaves the stored status code alone and
\* returns it, whatever value an explicit call stored; it returns 200 when
\* nothing was stored.
C3_DefaultCallReturnsStored ==
    [][C3_DefaultCall =>
        /\ self'.status_code = self.status_code
        /\ ret' = IF self.status_code = PyNone THEN 200 ELSE self.status_code.i]_vars

\* C3 (amended): a default call leaves the stored status code alone; it
\* returns the stored value when that is a non-zero number, and 200 when
\* nothing was stored or 0 was stored.
C3_DefaultCallKeepsStored ==
    [][C3_DefaultCall =>
        /\ self'.status_code = self.status_code
        /\ ret' = IF self.status_code = PyNone \/ self.status_code.i = 0
                  THEN 200 ELSE self.status_code.i]_vars

\* set_status_code(404), then a default get_status_code call returned 404
C3_Witness ==
    /\ lastcall.op = "get_status_code"
    /\ lastcall.arg \in {PyNone, PyInt(200)}
    /\ self.status_code = PyInt(404)
    /\ ret = 404

\* C4: every entry of the messenger list carries a message that is a
\* string.
C4_MessageIsString ==
    \A i \in 1..Len(self.messenger) : self.messenger[i].d.message.t = "str"

\* the step is handle_exception(exc) for a recognized domain exception
C5_DomainStep ==
    /\ pc = "view"
    /\ pc' \in {"handled", "raised"}
    /\ self'.exc.cls \in DomainClasses

\* the accumulator a recognized category reports to
C5_Matching(cls) ==
    CASE cls = "DeveloperErrorResponseAPIMessage"     -> "errors_message"
      [] cls = "DeveloperExceptionResponseAPIMessage" -> "exceptions_message"
      [] cls = "DeveloperWarningResponseAPIMessage"   -> "warnings_message"
      [] OTHER                                        -> "messenger"

C5_EntryType(cls) ==
    CASE cls = "EnduserErrorResponseAPIMessage"   -> "ERROR"
      [] cls = "EnduserFailResponseAPIMessage"    -> "FAIL"
      [] cls = "EnduserWarningResponseAPIMessage" -> "WARNING"

\* C5: handle_exception on a recognized domain exception stores the
\* exception's status code and appends exactly one message, to the matching
\* accumulator, in verbose and in strict mode alike.
C5_OneMessageAndStatus ==
    [][C5_DomainStep =>
        /\ self'.status_code = PyInt(self'.exc.status_code)
        /\ \A f \in AccumulatorFields :
              Appended(f) = IF f = C5_Matching(self'.exc.cls) THEN 1 ELSE 0
        /\ self'.exc.cls \in EnduserClasses =>
              self'.messenger[Len(self'.messenger)].d.type.s = C5_EntryType(self'.exc.cls)]_vars

C7_Unrecognized(exc) ==
    /\ exc.cls \notin DomainClasses
    /\ ~IsAPIException(exc)
    /\ exc.cls \notin {"Http404", "DjangoPermissionDenied"}

C8_AuthCoercion ==
    (pc = "handled" /\ self.exc.cls \in AuthClasses) =>
        IF Truthy(lastcall.arg)
        THEN /\ self.exc.status_code = 401
             /\ response.status_code = 401
             /\ "WWW-Authenticate" \in DOMAIN response.headers
             /\ response.headers["WWW-Authenticate"] = lastcall.arg
        ELSE /\ self.exc.status_code = 403
             /\ response.status_code = 403
             /\ "WWW-Authenticate" \notin DOMAIN response.headers

\* strict mode coerced an authentication exception without challenge header
C8_Witness ==
    /\ pc = "handled"
    /\ self.exc.cls \in AuthClasses
    /\ ~settings.HANDLING
    /\ ~Truthy(lastcall.arg)
    /\ response.status_code = 403


C14_IsPrefix(a, b) == Len(a) <= Len(b) /\ SubSeq(b, 1, Len(a)) = a

\* the list a sequence of entries is serialized as
C14_Serialized(entries) == response_validator(PyList(entries))

\* C14: every step leaves the old content of each message list and of the
\* messenger as a prefix of the new content, and the finalized envelope
\* shows the messenger and the message lists in that order.
C14_AppendOnly ==
    [][/\ \A f \in AccumulatorFields : C14_IsPrefix(self[f], self'[f])
       /\ pc' = "finalized" =>
            /\ envelope'.d.messenger = C14_Serialized(self'.messenger)
            /\ envelope'.d.development_messages.d.log = C14_Serialized(self'.logs_message)
            /\ envelope'.d.development_messages.d.info = C14_Serialized(self'.infos_message)
            /\ envelope'.d.development_messages.d.warning = C14_Serialized(self'.warnings_message)
            /\ envelope'.d.development_messages.d.error = C14_Serialized(self'.errors_message)
            /\ envelope'.d.development_messages.d.exception =
                  C14_Serialized(self'.exceptions_message)]_vars

\* the same error message set twice, both in the finalized envelope,
\* followed by a later one
C14_Witness ==
    /\ pc = "finalized"
    /\ Len(self.errors_message) > 2
    /\ self.errors_message[1] = self.errors_message[2]
    /\ self.errors_message[3] # self.errors_message[1]
    /\ envelope.d.development_messages.d.error.l = self.errors_message

\* the request is over: serialized, passed through or escalated
C16_Terminal == pc \in {"finalized", "passed", "raised"}

\* the classifier runs only on a raise out of the view logic, and the view
\* logic is left by a return or by the classifier
C16_ClassifierOnRaise ==
    /\ self'.exc # self.exc => pc = "view" /\ pc' \in {"handled", "raised"}
    /\ pc' = "handled" => pc = "view" /\ self'.exc # PyNone
    /\ pc' = "returned" => pc = "view" /\ self'.exc = PyNone

\* the builder runs in finalize_response only, and its sanitized envelope is
\* the body of the response
C16_BuilderInFinalize ==
    /\ built' # built => pc \in {"returned", "handled"} /\ pc' = "finalized"
    /\ pc' = "finalized" =>
          /\ pc \in {"returned", "handled"}
          /\ built = PyNone
          /\ built'.t = "dict"
          /\ envelope' = response_validator(built')
          /\ response'.data = envelope'

\* C16 (as claimed): every request goes from the view logic, through the
\* classifier only if the view raised, to finalize_response, which runs the
\* builder exactly once and serializes its envelope.
C16_EveryRequestSerialized ==
    [][/\ ~C16_Terminal
       /\ C16_ClassifierOnRaise
       /\ C16_BuilderInFinalize
       /\ pc = "view" => pc' \in {"view", "returned", "handled"}
       /\ pc \in {"returned", "handled"} => pc' = "finalized"]_vars

\* C16 (amended): the classifier runs only if the view raised, and it ends
\* the request when strict mode re-raises; finalize_response runs the
\* builder exactly once and serializes its envelope unless the mock server
\* answers or the response is not a rest_framework Response, and then the
\* response goes through as it is and no envelope is built.
C16_RequestCycle ==
    [][/\ ~C16_Terminal
       /\ C16_ClassifierOnRaise
       /\ C16_BuilderInFinalize
       /\ (pc = "view" /\ pc' = "raised") =>
             /\ ~settings.HANDLING
             /\ raised' = self'.exc
             /\ built' = PyNone
       /\ pc \in {"returned", "handled"} =>
             /\ pc' \in {"finalized", "passed"}
             /\ pc' = "passed" <=> (response' = MockResponse \/ ~response.drf)
             /\ pc' = "passed" => built' = PyNone /\ self' = self]_vars

\* a failed request was classified, then its envelope built and serialized
C16_Witness ==
    /\ pc = "finalized"
    /\ self.exc # PyNone
    /\ built # PyNone
    /\ response.data = response_validator(built)
    /\ response.exception

----------------------------------------------------------------------------
(* The envelope builder on its own: response_context(data) called on an    *)
(* instance whose accumulators the public setters have filled.             *)

BuildCodes == {0, 99, 100, 200, 201, 299, 300, 400, 401, 403, 404, 421, 450, 500, 600}

MessengerTypes == {"FAIL", "ERROR", "WARNING", "SUCCESS"}

BuildData ==
    {PyNone, PyStr(""), PyStr("s"),
     PyStrMsg("InfoStringMessage", "i", "info"),
     PyStrMsg("LogStringMessage", "l", "log"),
     PyList(<<>>), PyList(<<PyInt(1), PyInt(2)>>),
     PyList(<<PyStrMsg("ErrorStringMessage", "e", "error")>>),
     PyDict([a |-> PyInt(1)]),
     PyDict([a |-> PyStrMsg("WarningStringMessage", "w", "warning")]),
     PyDict([count |-> PyInt(1), next |-> PyNone, previous |-> PyNone,
             results |-> PyList(<<PyInt(1)>>)]),
     PyInt(5)}

SeqsUpTo(S, n) == UNION {[1..k -> S] : k \in 0..n}

RECURSIVE AddAll(_, _)
AddAll(s, types) ==
    IF types = <<>> THEN s
    ELSE AddAll(add_to_messenger(s, PyStr("m"), PyInt(1), Head(types)), Tail(types))

RECURSIVE Times(_, _, _)
Times(s, n, kind) ==
    IF n = 0 THEN s
    ELSE Times(CASE kind = "error"     -> set_error_message(s, "k", PyStr("v"))
                 [] kind = "exception" -> set_exception_message(s, "k", PyStr("v"))
                 [] kind = "warning"   -> set_warning_message(s, "k", PyStr("v")),
               n - 1, kind)

\* the instance after the setter calls that leave it with the given status
\* code, list lengths, messenger types and exception flag
Prepared(status, ne, nx, nw, types, flag) ==
    LET Flagged(s3) == IF flag THEN set_exception_status(s3, TRUE) ELSE s3
    IN  Flagged(AddAll(Times(Times(Times(
            IF status = PyNone THEN NewSelf ELSE set_status_code(NewSelf, status),
            ne, "error"), nx, "exception"), nw, "warning"), types))

BuildExceptions == {MkExc("APIException", 404, "", PyNone, ErrorDetail("gone", "not_found"))}

BuildSettings ==
    [HANDLING : BOOLEAN,
     COMMUNICATION_WITH_SOFTWARE_SUPPORT : {TRUE},
     DEBUG : {TRUE},
     DEVELOPMENT_STATE : {TRUE},
     MONITOR : {<<>>}]

InitBuild ==
    /\ \E status \in {PyNone} \cup {PyInt(c) : c \in BuildCodes},
          ne \in 0..MaxMsgs, nx \in 0..MaxMsgs, nw \in 0..MaxMsgs,
          types \in SeqsUpTo(MessengerTypes, MaxMessenger), flag \in BOOLEAN :
        self = Prepared(status, ne, nx, nw, types, flag)
    /\ settings \in BuildSettings
    /\ request \in Requests
    /\ pc = "view"
    /\ nops = 0
    /\ lastcall = [op |-> "__init__", arg |-> PyNone]
    /\ ret = 0
    /\ raised = PyNone
    /\ response = NoResponse
    /\ built = PyNone
    /\ envelope = PyNone

\* response_context(data)
ResponseContext ==
    /\ pc = "view"
    /\ \E data \in BuildData :
        LET Returned(c) ==
                /\ self' = c.self
                /\ built' = c.built
                /\ envelope' = c.ret
                /\ raised' = c.raised
                /\ pc' = IF c.raised = PyNone THEN "built" ELSE "raised"
        IN  /\ Returned(response_context(self, data, request, settings))
            /\ lastcall' = [op |-> "response_context", arg |-> data]
    /\ UNCHANGED <<settings, request, nops, ret, response>>

\* the view logic raises with the accumulators filled
HandleExceptionBuild ==
    /\ pc = "view"
    /\ \E exc \in BuildExceptions : Handle(exc, PyNone)

NextBuild ==
    \/ ResponseContext
    \/ HandleExceptionBuild
    \/ FinalizeResponse

SpecBuild == InitBuild /\ [][NextBuild]_vars

----------------------------------------------------------------------------
(* The envelope builder over the shapes of data a view hands over, the     *)
(* view's pagination attribute, the display headers of the request and the *)
(* development settings.                                                   *)

List123 == PyList(<<PyInt(1), PyInt(2), PyInt(3)>>)

ShapeData ==
    {PyNone, PyStr("s"), List123, PyList(<<>>),
     PyDict([count |-> PyInt(3), next |-> PyStr("n"), previous |-> PyNone,
             results |-> List123]),
     PyDict([count |-> PyInt(3), page_size |-> PyInt(2), page_number |-> PyInt(1),
             result |-> PyList(<<PyInt(1), PyInt(2)>>)]),
     PyDict([a |-> PyInt(1)]),
     PyDict([results |-> List123]),
     EmptyDict}

\* the values a display header is sent with, "" standing for no header
DisplayValues == {"", "True", "False"}

Header(name, value) == IF value = "" THEN <<>> ELSE (name :> value)

EnvelopeRequests ==
    {[headers |-> Header("Response-Schema-Version", v)
                  @@ Header("Development-Messages-Display", dm)
                  @@ Header("Exception-Status-Display", es),
      attrs   |-> <<>>] :
        v \in {"", "2.0.0"}, dm \in DisplayValues, es \in DisplayValues}

\* a configured hook: it returns value, or raises PassException(*args)
Returning(key, value) == [key |-> key, pass |-> FALSE, args |-> <<>>, value |-> value]
Passing(key, args) == [key |-> key, pass |-> TRUE, args |-> args, value |-> PyNone]

\* the arguments a hook raises PassException with: none, or a message
PassExceptionArgs == {<<>>, <<"skip">>}

\* the registries of hooks, in registry order
HookRegistries ==
    {<<>>, <<Returning("a", PyInt(1))>>,
     <<Passing("a", <<"skip">>), Passing("b", <<"skip">>)>>}
    \cup {<<Passing("a", args), Returning("b", PyInt(2))>> : args \in PassExceptionArgs}
    \cup {<<Returning("a", PyInt(1)), Passing("b", args)>> : args \in PassExceptionArgs}

EnvelopeSettings ==
    [HANDLING : {TRUE},
     COMMUNICATION_WITH_SOFTWARE_SUPPORT : {TRUE},
     DEBUG : BOOLEAN,
     DEVELOPMENT_STATE : BOOLEAN,
     MONITOR : HookRegistries,
     PASTE_TO_REQUEST : HookRegistries]

InitEnvelope ==
    /\ \E p \in BOOLEAN : self = [NewSelf EXCEPT !.pagination = p]
    /\ settings \in EnvelopeSettings
    /\ request \in EnvelopeRequests
    /\ pc = "init"
    /\ nops = 0
    /\ lastcall = [op |-> "__init__", arg |-> PyNone]
    /\ ret = 0
    /\ raised = PyNone
    /\ response = NoResponse
    /\ built = PyNone
    /\ envelope = PyNone

\* initialize_request(request): the pre-request hooks paste their results
\* to the request
InitializeRequest ==
    /\ pc = "init"
    /\ LET Pasted(r) ==
               /\ self' = r.self
               /\ request' = [request EXCEPT !.attrs = r.attrs]
               /\ raised' = r.raised
               /\ pc' = IF r.raised = PyNone THEN "view" ELSE "raised"
       IN  Pasted(paste_to_request_func_loader_play(self, request.attrs,
                                                    settings.PASTE_TO_REQUEST))
    /\ lastcall' = [op |-> "initialize_request", arg |-> PyNone]
    /\ UNCHANGED <<settings, nops, ret, response, built, envelope>>

\* response_context(data) for each shape of data
ResponseContextShape ==
    /\ pc = "view"
    /\ \E data \in ShapeData :
        LET Returned(c) ==
                /\ self' = c.self
                /\ built' = c.built
                /\ envelope' = c.ret
                /\ raised' = c.raised
                /\ pc' = IF c.raised = PyNone THEN "built" ELSE "raised"
        IN  /\ Returned(response_context(self, data, request, settings))
            /\ lastcall' = [op |-> "response_context", arg |-> data]
    /\ UNCHANGED <<settings, request, nops, ret, response>>

NextEnvelope ==
    \/ InitializeRequest
    \/ ResponseContextShape

SpecEnvelope == InitEnvelope /\ [][NextEnvelope]_vars

IsV2 == SchemaVersion(request) = "2.0.0"

PaginatedKeys == {"count", "next", "previous", "results"}
CursorlessKeys == {"count", "page_size", "page_number", "result"}

\* the payload of the data the builder stored, by its shape
C11_Payload(data) ==
    IF data.t = "list" THEN data
    ELSE IF PaginatedKeys \subseteq DOMAIN data.d THEN data.d.results
    ELSE IF CursorlessKeys \subseteq DOMAIN data.d THEN data.d.result
    ELSE data

\* C11: a v2 envelope built from a list or a dict carries the payload under
\* the top-level key result, has no key results and no key data, and has
\* none of count/next/previous when the view's pagination attribute is
\* false; a v1 envelope built from a list carries it under data.results.
C11_ResultKeyFlattened ==
    (pc = "built" /\ self.data.t \in {"list", "dict"}) =>
        IF IsV2
        THEN /\ "result" \in DOMAIN built.d
             /\ built.d.result = C11_Payload(self.data)
             /\ "result" \in DOMAIN envelope.d
             /\ envelope.d.result = response_validator(C11_Payload(self.data))
             /\ {"results", "data"} \cap DOMAIN envelope.d = {}
             /\ ~self.pagination => {"count", "next", "previous"} \cap DOMAIN envelope.d = {}
        ELSE self.data.t = "list" =>
                /\ envelope.d.data.d.results = response_validator(self.data)
                /\ "result" \notin DOMAIN envelope.d.data.d

\* a v2 envelope built from [1,2,3] by a view with pagination off
C11_Witness ==
    /\ pc = "built"
    /\ IsV2
    /\ ~self.pagination
    /\ self.data = List123
    /\ envelope.d.result = List123
    /\ "count" \notin DOMAIN envelope.d

\* the value the request sends the display header with, "True" when it sends
\* none
C17_Header(name) ==
    IF name \in DOMAIN request.headers THEN request.headers[name] ELSE "True"

\* C17: the envelope of either schema version has development_messages
\* exactly when the development-state setting is on and the
\* Development-Messages-Display header is absent or 'True', and
\* exception_status exactly when the setting is on and the
\* Exception-Status-Display header is absent or 'True'; with the setting off
\* it has neither; development_messages always lists info, warning and
\* error, and lists log and exception exactly when the debug setting is on.
C17_DisplayGated ==
    pc = "built" =>
        /\ "development_messages" \in DOMAIN envelope.d <=>
              (settings.DEVELOPMENT_STATE /\ C17_Header("Development-Messages-Display") = "True")
        /\ "exception_status" \in DOMAIN envelope.d <=>
              (settings.DEVELOPMENT_STATE /\ C17_Header("Exception-Status-Display") = "True")
        /\ ~settings.DEVELOPMENT_STATE =>
              {"development_messages", "exception_status"} \cap DOMAIN envelope.d = {}
        /\ "development_messages" \in DOMAIN envelope.d =>
              DOMAIN envelope.d.development_messages.d =
                  {"info", "warning", "error"}
                  \cup (IF settings.DEBUG THEN {"log", "exception"} ELSE {})

\* a version 2 envelope built with the development-state setting off for a
\* request that asks for both fields
C17_Witness ==
    /\ pc = "built"
    /\ IsV2
    /\ ~settings.DEVELOPMENT_STATE
    /\ "Development-Messages-Display" \in DOMAIN request.headers
    /\ request.headers["Development-Messages-Display"] = "True"
    /\ "Exception-Status-Display" \in DOMAIN request.headers
    /\ request.headers["Exception-Status-Display"] = "True"
    /\ "development_messages" \notin DOMAIN envelope.d
    /\ "exception_status" \notin DOMAIN envelope.d

\* the hooks of a registry that raise PassException
C15_Passing(hooks) == {i \in 1..Len(hooks) : hooks[i].pass}

\* the log messages with key 'pass' among the last n log messages
C15_PassLogs(s, n) ==
    {i \in (Len(s.logs_message) - n + 1)..Len(s.logs_message) :
        DOMAIN s.logs_message[i].d = {"pass"}}

\* C15: a hook raising PassException is swallowed: initialize_request and
\* the v1 builder let no exception out and go on, one log message with key
\* 'pass' is appended per such hook, its monitor key maps to null and its
\* request attribute is not set, and the other hooks still give their
\* results.
C15_PassSwallowed ==
    [][/\ (pc = "init" /\ pc' # "init") =>
            /\ raised' = PyNone
            /\ pc' = "view"
            /\ Len(self'.logs_message) = Len(self.logs_message)
                                          + Cardinality(C15_Passing(settings.PASTE_TO_REQUEST))
            /\ Cardinality(C15_PassLogs(self', Cardinality(C15_Passing(settings.PASTE_TO_REQUEST))))
                  = Cardinality(C15_Passing(settings.PASTE_TO_REQUEST))
            /\ \A i \in 1..Len(settings.PASTE_TO_REQUEST) :
                  IF settings.PASTE_TO_REQUEST[i].pass
                  THEN settings.PASTE_TO_REQUEST[i].key \notin DOMAIN request'.attrs
                  ELSE request'.attrs[settings.PASTE_TO_REQUEST[i].key]
                          = settings.PASTE_TO_REQUEST[i].value
       /\ (pc = "view" /\ pc' # "view" /\ ~IsV2) =>
            /\ raised' = PyNone
            /\ pc' = "built"
            /\ Cardinality(C15_PassLogs(self', Cardinality(C15_Passing(settings.MONITOR))))
                  = Cardinality(C15_Passing(settings.MONITOR))
            /\ \A i \in 1..Len(settings.MONITOR) :
                  built'.d.monitor.d[settings.MONITOR[i].key]
                     = IF settings.MONITOR[i].pass THEN PyNone
                       ELSE settings.MONITOR[i].value]_vars

----------------------------------------------------------------------------
(* The helpers of the builder taken one call at a time, on a fresh         *)
(* instance: each action is one call, lastcall holding the call and its    *)
(* argument and ret what it returned.                                      *)

\* the sources of a message, in the order the parser probes them, and the
\* value each one holds when it is there
MessageSources == <<"detail", "details", "messages", "message">>

SourceValue(name) ==
    IF name \in {"details", "messages"} THEN PyList(<<PyStr(name \o "[0]")>>)
    ELSE PyStr(name)

\* the attributes (or keys) of a value exposing the sources in K
Exposing(K) == [k \in K |-> SourceValue(k)]

SourceSets == SUBSET {"detail", "details", "messages", "message"}

MessageInputs ==
    {PyObj(Exposing(K)) : K \in SourceSets}
    \cup {PyDict(Exposing(K)) : K \in SourceSets}
    \cup {PyObj([other |-> PyStr("o")]), PyDict([other |-> PyStr("o")]),
          PyStr("s"), PyNone, PyInt(5)}

CodeInputs ==
    {PyInt(7), PyStr("c"), PyNone,
     PyObj([code |-> PyStr("oc")]), PyObj([other |-> PyStr("o")]),
     PyDict([code |-> PyStr("dc")]), PyDict([other |-> PyStr("o")]),
     PyList(<<>>)}

InitCalls ==
    /\ self = NewSelf
    /\ settings \in [HANDLING : {TRUE}, COMMUNICATION_WITH_SOFTWARE_SUPPORT : {TRUE},
                     DEBUG : {TRUE}, DEVELOPMENT_STATE : {TRUE}, MONITOR : {<<>>}]
    /\ request = [headers |-> <<>>]
    /\ pc = "view"
    /\ nops = 0
    /\ lastcall = [op |-> "__init__", arg |-> PyNone]
    /\ ret = PyNone
    /\ raised = PyNone
    /\ response = NoResponse
    /\ built = PyNone
    /\ envelope = PyNone

\* one call of a helper that returns value and leaves the instance alone
Returns(op, arg, value) ==
    /\ pc = "view"
    /\ pc' = "called"
    /\ lastcall' = [op |-> op, arg |-> arg]
    /\ ret' = value
    /\ UNCHANGED <<self, settings, request, nops, raised, response, built, envelope>>

\* __messenger_message_parser(x)
MessengerMessageParser ==
    \E x \in MessageInputs :
        Returns("messenger_message_parser", x, messenger_message_parser(x))

\* __messenger_code_parser(x)
MessengerCodeParser ==
    \E x \in CodeInputs :
        Returns("messenger_code_parser", x, messenger_code_parser(x))

\* the trees of plain containers nested up to depth n
RECURSIVE Trees(_)
Trees(n) ==
    IF n = 0 THEN {PyNone, PyInt(1), PyStr(""), EmptyDict, PyList(<<>>)}
    ELSE Trees(n - 1)
         \cup {PyList(<<x>>) : x \in Trees(n - 1)}
         \cup {PyList(<<x, EmptyDict>>) : x \in Trees(n - 1)}
         \cup {PyDict([a |-> x]) : x \in Trees(n - 1)}
         \cup {PyDict([a |-> x, b |-> PyList(<<>>)]) : x \in Trees(n - 1)}

\* _response_validator(input_data)
ResponseValidator ==
    \E x \in Trees(MaxDepth) :
        Returns("response_validator", x, response_validator(x))

\* __get_pagination_url(page_size, page_number, count)
GetPaginationUrl ==
    \E count \in 0..MaxCount, page_size \in 1..MaxPageSize, page_number \in 1..MaxPage :
        Returns("get_pagination_url",
                [page_size |-> page_size, page_number |-> page_number, count |-> count],
                PyTuple(get_pagination_url(page_size, page_number, count)))

\* one message-wrapper string of each class, and a plain string
WrapperStrings ==
    {PyStrMsg("InfoStringMessage", "i", "info"),
     PyStrMsg("ErrorStringMessage", "e", "error"),
     PyStrMsg("ErrorDetail", "d", "detail"),
     PyStrMsg("WarningStringMessage", "w", "warning"),
     PyStrMsg("LogStringMessage", "l", "log"),
     PyStrMsg("ExceptionStringMessage", "x", "exception")}

\* raw data with a string at the top level, inside a list, as a dict value
\* and below nested containers
WalkData ==
    {PyNone, PyInt(1)}
    \cup UNION {{x,
                 PyList(<<x, PyInt(1), x>>),
                 PyDict([a |-> x, b |-> PyInt(1)]),
                 PyList(<<PyList(<<x>>), PyDict([a |-> x])>>),
                 PyDict([a |-> PyList(<<x>>), b |-> PyDict([c |-> x])])} :
                x \in WrapperStrings \cup {PyStr("s")}}

\* __set_messages_from_data(data) on a fresh instance
SetMessagesFromData ==
    /\ pc = "view"
    /\ \E data \in WalkData :
        LET Walked(r) ==
                /\ self' = r.self
                /\ ret' = r.data
        IN  /\ Walked(set_messages_from_data(self, data))
            /\ lastcall' = [op |-> "set_messages_from_data", arg |-> data]
    /\ pc' = "called"
    /\ UNCHANGED <<settings, request, nops, raised, response, built, envelope>>

NextCalls ==
    \/ MessengerMessageParser
    \/ MessengerCodeParser
    \/ ResponseValidator
    \/ GetPaginationUrl
    \/ SetMessagesFromData

SpecCalls == InitCalls /\ [][NextCalls]_vars

\* the names a value exposes: the attributes of an object, the keys of a dict
C12_Exposed(x) ==
    IF x.t = "obj" THEN DOMAIN x.a
    ELSE IF x.t = "dict" THEN DOMAIN x.d
    ELSE {}

C12_Get(x, name) == IF x.t = "obj" THEN x.a[name] ELSE x.d[name]

\* the earliest source x exposes, [0] of it for a list
C12_Earliest(x) ==
    LET First(i) ==
            LET Value(v) == IF v.t = "list" /\ Len(v.l) > 0 THEN v.l[1] ELSE v
            IN  Value(C12_Get(x, MessageSources[i]))
        Exposed == {i \in 1..Len(MessageSources) : MessageSources[i] \in C12_Exposed(x)}
    IN  IF Exposed = {} THEN Placeholder
        ELSE First(CHOOSE i \in Exposed : \A j \in Exposed : i <= j)

\* C12: the message parser returns the earliest source the value exposes,
\* as an attribute or as a key, and the placeholder when it exposes none;
\* the code parser returns an int or str unchanged, else the attribute
\* code, else the key code, else '-1'.
C12_FirstSourceWins ==
    /\ lastcall.op = "messenger_message_parser" =>
          ret = IF lastcall.arg.t = "str" THEN lastcall.arg ELSE C12_Earliest(lastcall.arg)
    /\ lastcall.op = "messenger_code_parser" =>
          ret = IF lastcall.arg.t \in {"int", "str"} THEN lastcall.arg
                ELSE IF "code" \in C12_Exposed(lastcall.arg) THEN C12_Get(lastcall.arg, "code")
                ELSE PyStr("-1")

\* y is x with every empty dict replaced by null and everything else,
\* empty lists included, kept in place
RECURSIVE C13_Stripped(_, _)
C13_Stripped(x, y) ==
    IF x.t = "list"
    THEN /\ y.t = "list"
         /\ Len(y.l) = Len(x.l)
         /\ \A i \in 1..Len(x.l) : C13_Stripped(x.l[i], y.l[i])
    ELSE IF x.t = "dict"
    THEN IF DOMAIN x.d = {} THEN y = PyNone
         ELSE /\ y.t = "dict"
              /\ DOMAIN y.d = DOMAIN x.d
              /\ \A k \in DOMAIN x.d : C13_Stripped(x.d[k], y.d[k])
    ELSE y = x

\* C13: the sanitizer answers for every tree of plain containers, turns
\* every empty dict into null and keeps the rest, and sanitizing its result
\* again changes nothing.
C13_SanitizerIdempotent ==
    lastcall.op = "response_validator" =>
        /\ C13_Stripped(lastcall.arg, ret)
        /\ response_validator(ret) = ret

\* a nested tree with an empty dict as list element and as dict value
C13_Witness ==
    /\ lastcall.op = "response_validator"
    /\ lastcall.arg = PyDict([a |-> PyList(<<EmptyDict, EmptyDict>>), b |-> PyList(<<>>)])
    /\ ret = PyDict([a |-> PyList(<<PyNone, PyNone>>), b |-> PyList(<<>>)])

----------------------------------------------------------------------------
(* Properties of the envelope builder *)

Built == pc \in {"built", "finalized"}

EnvelopeStatus == envelope.d.status_code.i
EnvelopeSuccess == envelope.d.success.b
In2xx(c) == 200 <= c /\ c < 300

HasFailOrErrorEntry ==
    \E i \in 1..Len(self.messenger) : self.messenger[i].d.type.s \in {"FAIL", "ERROR"}

NoFailureMessages ==
    /\ self.errors_message = <<>>
    /\ self.exceptions_message = <<>>
    /\ ~HasFailOrErrorEntry

\* C1 (as claimed): success is true iff the status code is in [200,300) or
\* there are no error messages, no exception messages and no FAIL/ERROR
\* messenger entry, whatever the exception flag is.
C1_SuccessFormulaIgnoringFlag ==
    Built => (EnvelopeSuccess <=> (In2xx(EnvelopeStatus) \/ NoFailureMessages))

\* C1 (amended): success is true iff the status code is in [200,300) or
\* (no error messages, no exception messages, no FAIL/ERROR messenger entry
\* and the exception flag is off).
C1_SuccessFormula ==
    Built => (EnvelopeSuccess <=>
                (In2xx(EnvelopeStatus) \/ (NoFailureMessages /\ ~self.exception_status)))

\* a status code >= 300 with nothing recorded and the flag off: success
C1_Witness ==
    /\ Built
    /\ EnvelopeStatus >= 300
    /\ NoFailureMessages
    /\ ~self.exception_status
    /\ EnvelopeSuccess

\* C2 (as claimed): for a status code in [200,300) success is true exactly
\* when the messenger holds no FAIL/ERROR entry.
C2_SuccessUnlessFailEntry ==
    (Built /\ In2xx(EnvelopeStatus)) => (EnvelopeSuccess <=> ~HasFailOrErrorEntry)

\* C2 (amended): for a status code in [200,300) success is true whatever
\* the message lists, the exception flag and the messenger contain, a
\* FAIL/ERROR messenger entry included.
C2_SuccessIn2xx ==
    (Built /\ In2xx(EnvelopeStatus)) => EnvelopeSuccess

\* a 2xx envelope built with an error message and a FAIL/ERROR entry
C2_Witness ==
    /\ Built
    /\ In2xx(EnvelopeStatus)
    /\ HasFailOrErrorEntry
    /\ self.errors_message # <<>>
    /\ EnvelopeSuccess

IsV1 == SchemaVersion(request) # "2.0.0"

\* the step builds a v1 envelope from the data None
C9_NoneStep ==
    /\ IsV1
    /\ \/ pc = "view" /\ pc' = "built" /\ lastcall'.arg = PyNone
       \/ pc = "handled" /\ pc' = "finalized" /\ response.data = PyNone

\* the band table of the default messenger entries, "" where it has no row
C9_Band(c) ==
    CASE c \in {201, 400, 401, 403, 404, 421} -> ToString(c)
      [] c \in 100..199 -> "100"
      [] c \in 200..299 \ {201} -> "200"
      [] c \in 300..399 -> "300"
      [] c \in 400..499 \ {400, 401, 403, 404, 421} -> "400"
      [] c >= 500 -> "500"
      [] OTHER -> ""

C9_LastEntry == self'.messenger[Len(self'.messenger)].d

C10_Step == IsV1 /\ pc = "view" /\ pc' = "built"

\* the instance after the normalization of the data handed to the builder
C10_Normalized == set_messages_from_data(self, lastcall'.arg).self

\* the info, warning and error messages of an instance
C10_Reported(s) == Len(s.infos_message) + Len(s.warnings_message) + Len(s.errors_message)

\* the data part built for the normalized data n, an empty string giving
\* the value whenEmpty
C10_Classified(n, d, whenEmpty) ==
    CASE n.t = "none" -> d = PyDict([result |-> EmptyDict])
      [] n.t = "str"  -> d = IF n.s # "" THEN PyDict([result |-> PyDict([string |-> n])])
                             ELSE whenEmpty
      [] n.t = "list" -> d = PyDict([count |-> PyInt(Len(n.l)), next |-> PyNone,
                                     previous |-> PyNone, results |-> n])
      [] n.t = "dict" -> d = PyDict([result |-> n])
      [] OTHER        -> d = PyDict([result |-> EmptyDict])

\* the classification leaves the accumulators as the normalization left
\* them, but for None, where it reports one default message
C10_Injection ==
    IF self'.data = PyNone
    THEN /\ C10_Reported(self') = C10_Reported(C10_Normalized) + 1
         /\ self'.logs_message = C10_Normalized.logs_message
         /\ self'.exceptions_message = C10_Normalized.exceptions_message
    ELSE \A f \in AccumulatorFields : self'[f] = C10_Normalized[f]

\* C10 (as claimed): the v1 data part by kind of the normalized data, an
\* empty string giving {}.
C10_ClassifiedEmptyStringBare ==
    [][C10_Step =>
        /\ C10_Classified(self'.data, built'.d.data, EmptyDict)
        /\ C10_Injection]_vars

\* C10 (amended): the v1 data part by kind of the normalized data: None
\* gives {result: {}} and one default message; a non-empty string s gives
\* {result: {string: s}} and an empty string {result: {}}; a list L gives
\* {count: len(L), next: null, previous: null, results: L}; a dict d gives
\* {result: d}; any other kind gives {result: {}}; only None changes the
\* accumulators.
C10_ClassifiedByKind ==
    [][C10_Step =>
        /\ C10_Classified(self'.data, built'.d.data, PyDict([result |-> EmptyDict]))
        /\ C10_Injection]_vars

\* a v1 envelope built from an empty string
C10_Witness ==
    /\ pc = "built"
    /\ IsV1
    /\ lastcall.arg = PyStr("")
    /\ self.data = PyStr("")
    /\ built.d.data = PyDict([result |-> EmptyDict])

\* the step is response_context(None) on an instance with a stored status
\* code
C19_NoneStep ==
    /\ pc = "view"
    /\ pc' = "built"
    /\ lastcall'.arg = PyNone
    /\ self.status_code # PyNone

\* the list, key and text the bands give a status code; the 5xx band ends
\* at 599 unless open, and every other code is in the band of the
\* undefined codes
C19_Band(c, open) ==
    CASE c \in 100..199 -> [list |-> "warnings_message", key |-> "status_code_1xx",
                            text |-> "please wait..."]
      [] c = 201 -> [list |-> "infos_message", key |-> "status_code_2xx",
                     text |-> "The desired object was created correctly."]
      [] c \in 200..299 \ {201} ->
             [list |-> "infos_message", key |-> "status_code_2xx",
              text |-> "Your request has been successfully registered."]
      [] c \in 300..399 -> [list |-> "errors_message", key |-> "status_code_3xx",
                            text |-> "The requirements for your request are not available."]
      [] c = 400 -> [list |-> "errors_message", key |-> "status_code_4xx",
                     text |-> "Bad Request..."]
      [] c = 401 -> [list |-> "errors_message", key |-> "status_code_4xx",
                     text |-> "Your authentication information is not available."]
      [] c = 403 -> [list |-> "errors_message", key |-> "status_code_4xx",
                     text |-> "You do not have access to this section."]
      [] c = 404 -> [list |-> "errors_message", key |-> "status_code_4xx",
                     text |-> "There is no information about your request."]
      [] c = 421 -> [list |-> "errors_message", key |-> "status_code_4xx",
                     text |-> UnexpectedErrorText.s]
      [] c \in 400..499 \ {400, 401, 403, 404, 421} ->
             [list |-> "errors_message", key |-> "status_code_4xx",
              text |-> "There was an error in how to send the request."]
      [] c >= 500 /\ (open \/ c < 600) ->
             [list |-> "errors_message", key |-> "status_code_5xx",
              text |-> "The server is unable to respond to your request."]
      [] OTHER -> [list |-> "errors_message", key |-> "status_code_xxx",
                   text |-> "Undefined."]

C19_DevelopmentFields ==
    {"logs_message", "infos_message", "warnings_message", "errors_message",
     "exceptions_message"}

\* the step appends to the development lists the one entry e gives
C19_Injected(e) ==
    /\ \A f \in C19_DevelopmentFields : Appended(f) = IF f = e.list THEN 1 ELSE 0
    /\ self'[e.list][Len(self'[e.list])] = PyDict(e.key :> PyStr(e.text))

\* C19 (as claimed): building from None appends exactly one development
\* message, with the key and text of the band of the stored status code:
\* 1xx, 2xx (201 apart), 3xx, 4xx (400, 401, 403, 404 and 421 apart), 5xx,
\* and for every code below 100 or at or above 600 the key
\* 'status_code_xxx' with the text 'Undefined.'.
C19_DefaultMessageByBand ==
    [][C19_NoneStep => C19_Injected(C19_Band(self.status_code.i, FALSE))]_vars

\* C19 (amended): building from None appends exactly one development
\* message, with the key and text of the band of the status code that
\* get_status_code returns (200 for a stored 0): 1xx, 2xx (201 apart), 3xx,
\* 4xx (400, 401, 403, 404 and 421 apart), 5xx for every code of 500 or
\* more, and the key 'status_code_xxx' with the text 'Undefined.' for the
\* other codes below 100.
C19_DefaultMessageByReadCode ==
    [][C19_NoneStep =>
          C19_Injected(C19_Band(IF self.status_code.i = 0 THEN 200 ELSE self.status_code.i,
                                TRUE))]_vars

\* built from None with the stored status code 600: the 5xx message
C19_Witness ==
    /\ pc = "built"
    /\ lastcall.arg = PyNone
    /\ self.status_code = PyInt(600)
    /\ self.errors_message # <<>>
    /\ self.errors_message[Len(self.errors_message)] =
          PyDict("status_code_5xx" :> PyStr("The server is unable to respond to your request."))

\* the message list a string of class cls belongs to, "" for a plain string
C20_ListOf(cls) ==
    CASE cls = "InfoStringMessage" -> "infos_message"
      [] cls \in {"ErrorStringMessage", "ErrorDetail"} -> "errors_message"
      [] cls = "WarningStringMessage" -> "warnings_message"
      [] cls = "LogStringMessage" -> "logs_message"
      [] cls = "ExceptionStringMessage" -> "exceptions_message"
      [] OTHER -> ""

\* the values of a dict, in the order of KeySeq
C20_Values(d) == [i \in 1..Len(KeySeq(DOMAIN d)) |-> d[KeySeq(DOMAIN d)[i]]]

\* x with every message-wrapper string replaced by None, at any depth
RECURSIVE C20_Replaced(_)
C20_Replaced(x) ==
    IF x.t = "str" THEN (IF C20_ListOf(x.cls) = "" THEN x ELSE PyNone)
    ELSE IF x.t = "list" THEN PyList([i \in 1..Len(x.l) |-> C20_Replaced(x.l[i])])
    ELSE IF x.t = "dict" THEN PyDict([k \in DOMAIN x.d |-> C20_Replaced(x.d[k])])
    ELSE x

\* how many strings of x, at any depth, belong to the message list f
RECURSIVE C20_Count(_, _)
RECURSIVE C20_CountAll(_, _)
C20_Count(x, f) ==
    IF x.t = "str" THEN (IF C20_ListOf(x.cls) = f THEN 1 ELSE 0)
    ELSE IF x.t = "list" THEN C20_CountAll(x.l, f)
    ELSE IF x.t = "dict" THEN C20_CountAll(C20_Values(x.d), f)
    ELSE 0
C20_CountAll(items, f) ==
    IF items = <<>> THEN 0 ELSE C20_Count(Head(items), f) + C20_CountAll(Tail(items), f)

\* C20: normalization of raw data on a fresh instance appends every
\* message-wrapper string found at any depth exactly once to its message
\* list and returns the data with each of them replaced by None in place,
\* everything else (plain strings, scalars, list lengths and order, dict
\* keys) being as it was.
C20_WrappersExtracted ==
    (pc = "called" /\ lastcall.op = "set_messages_from_data") =>
        /\ ret = C20_Replaced(lastcall.arg)
        /\ \A f \in {"infos_message", "errors_message", "warnings_message",
                      "logs_message", "exceptions_message"} :
              Len(self[f]) = C20_Count(lastcall.arg, f)

C18_Ceil(count, page_size) == (count + page_size - 1) \div page_size

\* C18: with last_page = ceil(count / page_size), the derivation returns
\* next = <request_path>?page=<page_number + 1> exactly when page_number is
\* before last_page, previous = <request_path>?page=<page_number - 1>
\* exactly when page_number is after the first page, and null otherwise.
C18_NextPrevious ==
    (pc = "called" /\ lastcall.op = "get_pagination_url") =>
        /\ ret.l[1] = IF lastcall.arg.page_number
                         < C18_Ceil(lastcall.arg.count, lastcall.arg.page_size)
                    THEN PageUrl(lastcall.arg.page_number + 1) ELSE PyNone
        /\ ret.l[2] = IF lastcall.arg.page_number > 1
                    THEN PageUrl(lastcall.arg.page_number - 1) ELSE PyNone

\* the status code of the response handed to finalize_response takes
\* precedence
C21_Precedes(c) == 100 <= c /\ c < 600 /\ c # 200

\* the envelope of the step's response shows the status of that response
C21_EnvelopeShowsStatus ==
    /\ envelope'.t = "dict"
    /\ "status_code" \in DOMAIN envelope'.d
    /\ envelope'.d.status_code = PyInt(response'.status_code)

\* C21 (as claimed): finalize_response gives the response the status code
\* of the incoming response, which it also stores, when that is in
\* [100, 600) and not 200, and the stored status code, or 200 if none was
\* stored, otherwise; the envelope's status_code is the status of the
\* response.
C21_ResponseStatusPrecedes ==
    [][(pc \in {"returned", "handled"} /\ pc' \in {"finalized", "passed"}) =>
          /\ IF C21_Precedes(response.status_code)
             THEN /\ response'.status_code = response.status_code
                  /\ self'.status_code = PyInt(response.status_code)
             ELSE /\ response'.status_code =
                       IF self.status_code = PyNone THEN 200 ELSE self.status_code.i
                  /\ self'.status_code = self.status_code
          /\ C21_EnvelopeShowsStatus]_vars

\* C21 (amended): when finalize_response rebuilds the response, it gives
\* it the status code of the incoming response, which it also stores, when
\* that is in [100, 600) and not 200, and otherwise the stored status code,
\* or 200 if none or 0 was stored; the envelope's status_code is the status
\* of the rebuilt response. A response that goes through as it is keeps its
\* own status code and the stored one is left alone.
C21_RebuiltStatusPrecedes ==
    [][/\ (pc \in {"returned", "handled"} /\ pc' = "finalized") =>
             /\ IF C21_Precedes(response.status_code)
                THEN /\ response'.status_code = response.status_code
                     /\ self'.status_code = PyInt(response.status_code)
                ELSE /\ response'.status_code =
                          IF self.status_code = PyNone \/ self.status_code.i = 0
                          THEN 200 ELSE self.status_code.i
                     /\ self'.status_code = self.status_code
             /\ C21_EnvelopeShowsStatus
       /\ (pc \in {"returned", "handled"} /\ pc' = "passed") =>
             /\ response' \in {response, MockResponse}
             /\ self'.status_code = self.status_code]_vars

\* verbose mode stored 421 for a framework exception whose response has
\* status 400, and the finalized response and its envelope have 400
C21_Witness ==
    /\ pc = "finalized"
    /\ settings.HANDLING
    /\ self.exc # PyNone
    /\ self.exc.cls = "APIException"
    /\ response.status_code = 400
    /\ self.status_code = PyInt(400)
    /\ envelope.d.status_code = PyInt(400)

\* the step builds an envelope from data that normalizes to None
C22_BuildsFromNone ==
    \/ /\ pc = "view"
       /\ pc' = "built"
       /\ set_messages_from_data(self, lastcall'.arg).data = PyNone
    \/ /\ pc = "handled"
       /\ pc' = "finalized"
       /\ set_messages_from_data(self, response.data).data = PyNone

\* C22: in both schema versions, an envelope built from data that
\* normalizes to None with a status code of 300 or more has success false,
\* the build having appended an error message, whatever was recorded
\* before; so an envelope built from such data has success true only with a
\* status code in [200, 300).
C22_NoneDataFailsOutside2xx ==
    [][C22_BuildsFromNone =>
          /\ envelope'.d.status_code.i >= 300 =>
                /\ ~envelope'.d.success.b
                /\ Appended("errors_message") > 0
          /\ envelope'.d.success.b => In2xx(envelope'.d.status_code.i)]_vars

\* a version 2 envelope built with status 404 from an info wrapper string
\* on an instance with nothing recorded: the injected error message is the
\* only one and success is false
C22_Witness ==
    /\ pc = "built"
    /\ IsV2
    /\ lastcall.arg.t = "str"
    /\ self.data = PyNone
    /\ envelope.d.status_code = PyInt(404)
    /\ Len(self.errors_message) = 1
    /\ "status_code_4xx" \in DOMAIN self.errors_message[1].d
    /\ self.exceptions_message = <<>>
    /\ ~self.exception_status
    /\ Len(self.messenger) = 1
    /\ ~envelope.d.success.b

====
